---- MODULE Spec2Model ----
(***************************************************************************)
(* dns-reverse-proxy: suffix routing, transfer access control and the      *)
(* forwarding paths of route()/proxy()/lookupDoH().                        *)
(*                                                                         *)
(* Go strings are modelled as sequences of tokens: a token is a single     *)
(* character where the code inspects characters (letters of a name, ".",   *)
(* ":", "[", "]", ",", "=") and an opaque atom elsewhere ("8.8.8.8").       *)
(***************************************************************************)
EXTENDS Integers, Sequences, FiniteSets, TLC

VARIABLES
    started,        \* TRUE once main has started the listeners, FALSE after log.Fatal
    routeLists,     \* the -route values, as flag.Parse collected them
    routes,         \* map[string][]string built by main
    defaultServer,  \* *defaultServer, <<>> when -default is not given
    transferIPs,    \* []string built by main from -allow-transfer
    task            \* per query slot: the query, its handling task and what it did

vars == <<started, routeLists, routes, defaultServer, transferIPs, task>>

config == <<started, routeLists, routes, defaultServer, transferIPs>>

(***************************************************************************)
(* Bounds of the model.                                                    *)
(***************************************************************************)
MaxAnswers == 2     \* answer records in one upstream response
MaxEnvelopes == 2   \* envelopes in one zone-transfer stream

Queries == {"q1", "q2"}   \* queries that can be in flight at the same time

\* the query slots: those of Queries, for queries the two listeners of main
\* hand to route, and one for a query whose ResponseWriter has a remote
\* address of any form
Slots == Queries \cup {"q3"}

(***************************************************************************)
(* strings package.                                                        *)
(***************************************************************************)
HasSuffix(s, suffix) ==
    /\ Len(suffix) <= Len(s)
    /\ SubSeq(s, Len(s) - Len(suffix) + 1, Len(s)) = suffix

HasPrefix(s, prefix) ==
    /\ Len(prefix) <= Len(s)
    /\ SubSeq(s, 1, Len(prefix)) = prefix

LowerChar(c) ==
    CASE c = "A" -> "a"
      [] c = "B" -> "b"
      [] c = "C" -> "c"
      [] c = "X" -> "x"
      [] OTHER -> c

ToLower(s) == [i \in 1..Len(s) |-> LowerChar(s[i])]

\* first index of token c in s, 0 when absent (0-based -1 in Go)
IndexByte(s, c) ==
    IF \E i \in 1..Len(s) : s[i] = c
    THEN CHOOSE i \in 1..Len(s) : s[i] = c /\ \A j \in 1..(i - 1) : s[j] # c
    ELSE 0

LastIndexByte(s, c) ==
    IF \E i \in 1..Len(s) : s[i] = c
    THEN CHOOSE i \in 1..Len(s) : s[i] = c /\ \A j \in (i + 1)..Len(s) : s[j] # c
    ELSE 0

RECURSIVE Split(_, _)
Split(s, sep) ==
    LET i == IndexByte(s, sep)
    IN  IF i = 0 THEN <<s>>
        ELSE <<SubSeq(s, 1, i - 1)>> \o Split(SubSeq(s, i + 1, Len(s)), sep)

SplitN2(s, sep) ==
    LET i == IndexByte(s, sep)
    IN  IF i = 0 THEN <<s>>
        ELSE <<SubSeq(s, 1, i - 1), SubSeq(s, i + 1, Len(s))>>

\* strings.Replace(s, old, "", 1) for an old that is a prefix of s or absent
TrimFirstPrefix(s, old) ==
    IF HasPrefix(s, old) THEN SubSeq(s, Len(old) + 1, Len(s)) ELSE s

(***************************************************************************)
(* net package: host:port strings.                                         *)
(***************************************************************************)
AddrErr == [host |-> <<>>, port |-> <<>>, err |-> TRUE]

SplitHostPort(hostport) ==
    LET i == LastIndexByte(hostport, ":")
        n == Len(hostport)
        tail(from) == SubSeq(hostport, from, n)
        finish(host, j, k) ==
            IF IndexByte(tail(j), "[") > 0 THEN AddrErr
            ELSE IF IndexByte(tail(k), "]") > 0 THEN AddrErr
            ELSE [host |-> host, port |-> tail(i + 1), err |-> FALSE]
    IN  IF i = 0 THEN AddrErr
        ELSE IF hostport[1] = "["
        THEN LET end == IndexByte(hostport, "]")
             IN  IF end = 0 THEN AddrErr
                 ELSE IF end = n THEN AddrErr
                 ELSE IF end + 1 # i THEN AddrErr
                 ELSE finish(SubSeq(hostport, 2, end - 1), 2, end + 1)
        ELSE LET host == SubSeq(hostport, 1, i - 1)
             IN  IF IndexByte(host, ":") > 0 THEN AddrErr
                 ELSE finish(host, 1, 1)

JoinHostPort(host, port) ==
    IF IndexByte(host, ":") > 0
    THEN <<"[">> \o host \o <<"]", ":">> \o port
    ELSE host \o <<":">> \o port

\* w.RemoteAddr().String(): host:port of a *net.UDPAddr or *net.TCPAddr,
\* the bare name of an address that has no port
RemoteAddrString(w) == IF w.Port = <<>> THEN w.IP ELSE JoinHostPort(w.IP, w.Port)

(***************************************************************************)
(* Configuration: the values the flags can take.                           *)
(***************************************************************************)
E1 == <<"8.8.4.4", ":", "53">>
E2 == <<"1.1.1.1", ":", "53">>
E3 == <<"1.0.0.1", ":", "53">>
H1 == <<"https", ":", "/", "/", "dns.alidns.com">>
D0 == <<"8.8.8.8", ":", "53">>

\* -route values, each list is one command line
RouteFlagSets ==
    { <<>>,
      << <<".", "b", ".", "=">> \o E1,
         <<".", "a", ".", "b", ".", "=">> \o E2 \o <<",">> \o E3 >>,
      << <<".", "A", ".", "B", "=">> \o E2 \o <<",">> \o E3,
         <<".", "c", ".", "=">> \o H1 >>,
      << <<"a", ".", "b", "=">> \o E1 >>,
      << <<".", "a", ".", "b", ".", "=">> >>,
      << <<".", "a", ".", "b", ".">> \o E1 >>,
      << <<"=">> \o E1 >>,
      << <<".", "c", ".", "=">> \o H1,
         <<".", "b", ".", "=">> \o E1 \o <<",", ":", "53">> >>,
      << <<".", "b", ".", "=", "8.8.4.4">> >>,
      << <<".", "b", ".", "=">> \o E1 \o <<",">> \o E2 \o <<",", "1.0.0.1", ":">> >> }

DefaultFlags == { <<>>, D0 }

AllowTransferFlags == { <<>>, <<"1.2.3.4", ",", ":", ":", "1">> }

(***************************************************************************)
(* main: builds transferIPs and routes, or ends in log.Fatal.              *)
(***************************************************************************)
EmptyRoutes == [k \in {} |-> <<>>]

\* mutant: only the error of SplitHostPort is checked, not the empty host
\* or port
validBackend_ErrOnly(backend) == ~SplitHostPort(backend).err

validBackend(backend) ==
    LET hp == SplitHostPort(backend)
    IN  ~(hp.err \/ hp.host = <<>> \/ hp.port = <<>>)

\* mutant: the domain gets its trailing "." but is stored as written
routeKey_NoLower(domain) ==
    IF HasSuffix(domain, <<".">>) THEN domain ELSE domain \o <<".">>

routeKey(domain) ==
    ToLower(IF HasSuffix(domain, <<".">>) THEN domain ELSE domain \o <<".">>)

RECURSIVE parseRoutes(_, _, _)
parseRoutes(lists, i, acc) ==
    IF i > Len(lists) THEN [fatal |-> FALSE, routes |-> acc]
    ELSE LET s == SplitN2(lists[i], "=")
         IN  IF Len(s) # 2 \/ Len(s[1]) = 0 \/ Len(s[2]) = 0
             THEN [fatal |-> TRUE, routes |-> EmptyRoutes]
             ELSE LET backends == Split(s[2], ",")
                      key == routeKey(s[1])
                  IN  IF \E b \in 1..Len(backends) : ~validBackend(backends[b])
                      THEN [fatal |-> TRUE, routes |-> EmptyRoutes]
                      ELSE parseRoutes(lists, i + 1,
                               [k \in DOMAIN acc \cup {key} |->
                                   IF k = key THEN backends ELSE acc[k]])

main(lists, default, allowTransfer) ==
    LET r == parseRoutes(lists, 1, EmptyRoutes)
    IN  [started |-> ~r.fatal,
         routeLists |-> lists,
         transferIPs |-> Split(allowTransfer, ","),
         routes |-> r.routes,
         defaultServer |-> default]

(***************************************************************************)
(* Inbound queries: the ResponseWriter w (remote address of the client and *)
(* the listener it came in on) and the request req.                        *)
(***************************************************************************)
ClientIPs == { <<"1.2.3.4">>, <<":", ":", "1">>, <<"9.9.9.9">> }

Writers == [Net : {"udp", "tcp"}, IP : ClientIPs, Port : {<<"5353">>}]

QueryNames ==
    { <<"x", ".", "a", ".", "b", ".">>,
      <<"X", ".", "A", ".", "b", ".">>,
      <<"x", "a", ".", "b", ".">>,
      <<"y", ".", "c", ".">>,
      <<"z", ".">> }

QtypeLists ==
    { <<"A">>, <<"AAAA">>, <<"CNAME">>, <<"SOA">>, <<"TXT">>,
      <<"AXFR">>, <<"A", "IXFR">> }

Requests ==
    {[Question |-> <<>>]} \cup
    {[Question |-> [i \in 1..Len(ts) |-> [Name |-> n, Qtype |-> ts[i]]]] :
        n \in QueryNames, ts \in QtypeLists}

\* what the clients send: any query in slot q1, and next to it in slot q2
\* a query of a smaller choice
BackgroundInputs ==
    { <<[Net |-> "udp", IP |-> <<"9.9.9.9">>, Port |-> <<"5353">>],
        [Question |-> << [Name |-> <<"x", ".", "a", ".", "b", ".">>, Qtype |-> "A"] >>]>>,
      <<[Net |-> "tcp", IP |-> <<"1.2.3.4">>, Port |-> <<"5353">>],
        [Question |-> << [Name |-> <<"x", ".", "a", ".", "b", ".">>, Qtype |-> "AXFR"] >>]>> }

\* remote addresses outside what an accepted connection has: an address
\* that is no *net.TCPAddr and whose string has no host:port form, and a
\* *net.TCPAddr without IP, whose string is ":5353"
OtherWriters ==
    { [Net |-> "udp", IP |-> <<"sock">>, Port |-> <<>>],
      [Net |-> "tcp", IP |-> <<>>, Port |-> <<"5353">>] }

Inputs(q) ==
    CASE q = "q1" -> Writers \X Requests
      [] q = "q2" -> BackgroundInputs
      [] q = "q3" -> (Writers \cup OtherWriters) \X Requests

(***************************************************************************)
(* Messages.                                                               *)
(***************************************************************************)
\* the reply dns.HandleFailed writes
ServFail ==
    [Rcode |-> "SERVFAIL", Authoritative |-> FALSE, RecursionAvailable |-> FALSE,
     Answer |-> <<>>]

IsFailure(m) == m.Rcode = "SERVFAIL"

\* responses a classic backend can give
Digit(i) == <<"1", "2", "3", "4", "5">>[i]

UpstreamAnswer(k) ==
    [i \in 1..k |->
        [Name |-> <<"n", ".">>, Rrtype |-> IF i = 1 THEN "CNAME" ELSE "A",
         Data |-> <<"r", Digit(i)>>]]

UpstreamResponses ==
    {[Rcode |-> "NOERROR", Authoritative |-> FALSE, RecursionAvailable |-> TRUE,
      Answer |-> UpstreamAnswer(k)] : k \in 0..MaxAnswers}
    \cup
    {[Rcode |-> "NXDOMAIN", Authoritative |-> TRUE, RecursionAvailable |-> FALSE,
      Answer |-> <<>>]}

\* envelope streams a backend's transfer session can deliver before the
\* channel is closed: record envelopes, the last one possibly an envelope
\* carrying the error that ended the session; the session always delivers
\* at least one envelope
Envelope(i) ==
    [RR |-> << [Name |-> <<"n", ".">>, Rrtype |-> "SOA", Data |-> <<"z", Digit(i)>>] >>,
     Error |-> FALSE]

ErrEnvelope == [RR |-> <<>>, Error |-> TRUE]

Streams ==
    {[i \in 1..k |-> Envelope(i)] : k \in 1..MaxEnvelopes}
    \cup
    {[i \in 1..k |-> IF i = k THEN ErrEnvelope ELSE Envelope(i)] : k \in 1..MaxEnvelopes}

(***************************************************************************)
(* Query slots.                                                            *)
(***************************************************************************)
IdleTask ==
    [pc |-> "idle",
     w |-> [Net |-> "", IP |-> <<>>, Port |-> <<>>],
     req |-> [Question |-> <<>>],
     via |-> "",          \* "route" or "default" once route() has chosen
     matched |-> <<>>,    \* the routes key that matched
     addr |-> <<>>,       \* the addr argument of proxy
     server |-> <<>>,     \* proxy's addr variable after the scheme is cut off
     mode |-> <<>>,       \* branches of proxy entered, in order
     upstream |-> <<>>,   \* upstream operations opened, in order
     written |-> <<>>,    \* messages written to the client, in order
     xfr |-> <<>>,        \* envelopes received from the transfer session
     resolves |-> {},     \* record types the DoH resolver could resolve
     fault |-> "",        \* the call that returned an error, if one did
     logq |-> <<>>,       \* answers the log goroutine has still to print
     logged |-> <<>>]     \* passive-log lines printed, in order

(***************************************************************************)
(* isTransfer, allowed.                                                    *)
(***************************************************************************)
RECURSIVE isTransferFrom(_, _)
isTransferFrom(req, i) ==
    IF i > Len(req.Question) THEN FALSE
    ELSE IF req.Question[i].Qtype \in {"IXFR", "AXFR"} THEN TRUE
    ELSE isTransferFrom(req, i + 1)

\* mutant: only AXFR counts as a transfer, IXFR is forgotten
isTransfer_AxfrOnly(req) ==
    \E i \in 1..Len(req.Question) : req.Question[i].Qtype = "AXFR"

isTransfer(req) == isTransferFrom(req, 1)

RECURSIVE containsIP(_, _, _)
containsIP(ips, remote, i) ==
    IF i > Len(ips) THEN FALSE
    ELSE IF ips[i] = remote THEN TRUE
    ELSE containsIP(ips, remote, i + 1)

\* mutant: the remote address is compared with its port still on
allowed_NoSplit(w, req) ==
    IF ~isTransfer(req) THEN TRUE
    ELSE containsIP(transferIPs, RemoteAddrString(w), 1)

allowed(w, req) ==
    IF ~isTransfer(req) THEN TRUE
    ELSE LET remote == SplitHostPort(RemoteAddrString(w)).host
         IN  containsIP(transferIPs, remote, 1)

(***************************************************************************)
(* dns.HandleFailed(w, req): writes the failure reply; every caller        *)
(* returns right after it.                                                 *)
(***************************************************************************)
HandleFailed(t) ==
    [t EXCEPT !.written = Append(@, ServFail), !.pc = "done"]

(***************************************************************************)
(* lookupDoH.                                                              *)
(***************************************************************************)
HttpsScheme == <<"https", ":", "/", "/">>

DoHTypes == {"A", "AAAA", "CNAME", "SOA"}   \* the cases of the switch on q.Qtype

\* what the resolver's LookupA/LookupAAAA/LookupCNAME/LookupSOA return for a
\* lookup that succeeds with k records; a canonical name may come without
\* its trailing dot
ResolverData(qtype, i) ==
    IF qtype = "CNAME" /\ i = 1 THEN <<"t">> ELSE <<"t", Digit(i), ".">>

\* the records lookupDoH builds from the resolver's k records
dohAnswers(t, k) ==
    LET q == t.req.Question[1]
        lcName == ToLower(q.Name)
        data(i) ==
            LET d == ResolverData(q.Qtype, i)
            IN  IF q.Qtype = "CNAME" /\ ~HasSuffix(d, <<".">>) THEN d \o <<".">> ELSE d
    IN  [i \in 1..k |-> [Name |-> lcName, Rrtype |-> q.Qtype, Data |-> data(i)]]

\* the reply lookupDoH synthesizes
dohReply(answers) ==
    [Rcode |-> "NOERROR", Authoritative |-> TRUE, RecursionAvailable |-> FALSE,
     Answer |-> answers]

\* mutant: a lookup without answers is answered like a failed exchange
dohFinish_FailOnEmpty(t, answers) ==
    IF answers = <<>>
    THEN HandleFailed(t)
    ELSE [t EXCEPT !.written = @ \o <<dohReply(answers), dohReply(answers)>>,
                   !.logq = answers,
                   !.pc = "done"]

\* the tail of lookupDoH and of proxy after it: lookupDoH writes m and returns
\* it, proxy writes resp (the same m) and starts the log goroutine
dohFinish(t, answers) ==
    [t EXCEPT !.written = @ \o <<dohReply(answers), dohReply(answers)>>,
              !.logq = answers,
              !.pc = "done"]

(***************************************************************************)
(* proxy(addr, w, req), up to its first blocking call.                     *)
(***************************************************************************)
\* mutant: the type assertion on the remote address is inverted
transportOf_Inverted(w) == IF w.Net = "tcp" THEN "udp" ELSE "tcp"

\* mutant: the type assertion never succeeds
transportOf_Udp(w) == "udp"

transportOf(w) == IF w.Net = "tcp" THEN "tcp" ELSE "udp"

\* mutant: the endpoint's form is looked at before the query's type, a
\* transfer query for an https:// endpoint goes to lookupDoH
proxy_SchemeFirst(t0, addr) ==
    LET t == [t0 EXCEPT !.addr = addr, !.server = addr]
        transport == transportOf(t.w)
    IN  IF HasPrefix(addr, HttpsScheme)
        THEN LET host == TrimFirstPrefix(addr, HttpsScheme)
                 d == [t EXCEPT !.server = host, !.mode = Append(@, "doh")]
             IN  IF t.req.Question[1].Qtype \in DoHTypes
                 THEN [d EXCEPT !.pc = "doh",
                                !.upstream = Append(@, [op |-> "doh", addr |-> host,
                                                        net |-> "https"])]
                 ELSE dohFinish(d, <<>>)
        ELSE IF isTransfer(t.req)
        THEN LET x == [t EXCEPT !.mode = Append(@, "transfer")]
             IN  IF transport # "tcp"
                 THEN HandleFailed(x)
                 ELSE [x EXCEPT !.pc = "xfrIn",
                                !.upstream = Append(@, [op |-> "transfer", addr |-> addr,
                                                        net |-> "tcp"])]
        ELSE [t EXCEPT !.pc = "exchange",
                       !.mode = Append(@, "classic"),
                       !.upstream = Append(@, [op |-> "exchange", addr |-> addr,
                                               net |-> transport])]

proxy(t0, addr) ==
    LET t == [t0 EXCEPT !.addr = addr, !.server = addr]
        transport == transportOf(t.w)
    IN  IF isTransfer(t.req)
        THEN LET x == [t EXCEPT !.mode = Append(@, "transfer")]
             IN  IF transport # "tcp"
                 THEN HandleFailed(x)
                 ELSE [x EXCEPT !.pc = "xfrIn",
                                !.upstream = Append(@, [op |-> "transfer", addr |-> addr,
                                                        net |-> "tcp"])]
        ELSE IF HasPrefix(addr, HttpsScheme)
        THEN LET host == TrimFirstPrefix(addr, HttpsScheme)
                 d == [t EXCEPT !.server = host, !.mode = Append(@, "doh")]
             IN  IF t.req.Question[1].Qtype \in DoHTypes
                 THEN [d EXCEPT !.pc = "doh",
                                !.upstream = Append(@, [op |-> "doh", addr |-> host,
                                                        net |-> "https"])]
                 ELSE dohFinish(d, <<>>)
        ELSE [t EXCEPT !.pc = "exchange",
                       !.mode = Append(@, "classic"),
                       !.upstream = Append(@, [op |-> "exchange", addr |-> addr,
                                               net |-> transport])]

(***************************************************************************)
(* route(w, req).                                                          *)
(***************************************************************************)
\* mutant: the name is matched by prefix
routeMatches_Prefix(lcName) == {name \in DOMAIN routes : HasPrefix(lcName, name)}

\* keys a range over the routes map can reach first among those matching
routeMatches(lcName) == {name \in DOMAIN routes : HasSuffix(lcName, name)}

\* mutant: the random index is drawn below n - 1, the last backend is never
\* selected
selectAddr_NeverLast(addrs) ==
    IF Len(addrs) > 1
    THEN {addrs[r + 1] : r \in 0..(Len(addrs) - 2)}
    ELSE {addrs[1]}

\* addrs[0], or addrs[rand.Intn(n)] when n > 1
selectAddr(addrs) ==
    IF Len(addrs) > 1
    THEN {addrs[r + 1] : r \in 0..(Len(addrs) - 1)}
    ELSE {addrs[1]}

\* mutant: the default endpoint is used without the check that one is given
route_DefaultUnchecked(w, req) ==
    LET t == [IdleTask EXCEPT !.w = w, !.req = req]
    IN  IF Len(req.Question) = 0 \/ ~allowed(w, req)
        THEN {HandleFailed(t)}
        ELSE LET lcName == ToLower(req.Question[1].Name)
                 matches == routeMatches(lcName)
             IN  IF matches # {}
                 THEN {proxy([t EXCEPT !.via = "route", !.matched = name], addr) :
                          <<name, addr>> \in
                              UNION {{n} \X selectAddr(routes[n]) : n \in matches}}
                 ELSE {proxy([t EXCEPT !.via = "default"], defaultServer)}

\* mutant: the check for a query without questions is missing, such a query
\* is routed with an empty name
route_NoQuestionCheck(w, req) ==
    LET t == [IdleTask EXCEPT !.w = w, !.req = req]
    IN  IF ~allowed(w, req)
        THEN {HandleFailed(t)}
        ELSE LET lcName == IF Len(req.Question) = 0 THEN <<>>
                           ELSE ToLower(req.Question[1].Name)
                 matches == routeMatches(lcName)
             IN  IF matches # {}
                 THEN {proxy([t EXCEPT !.via = "route", !.matched = name], addr) :
                          <<name, addr>> \in
                              UNION {{n} \X selectAddr(routes[n]) : n \in matches}}
                 ELSE IF defaultServer = <<>>
                 THEN {HandleFailed(t)}
                 ELSE {proxy([t EXCEPT !.via = "default"], defaultServer)}

\* the results route can leave in the slot when it returns or blocks
route(w, req) ==
    LET t == [IdleTask EXCEPT !.w = w, !.req = req]
    IN  IF Len(req.Question) = 0 \/ ~allowed(w, req)
        THEN {HandleFailed(t)}
        ELSE LET lcName == ToLower(req.Question[1].Name)
                 matches == routeMatches(lcName)
             IN  IF matches # {}
                 THEN {proxy([t EXCEPT !.via = "route", !.matched = name], addr) :
                          <<name, addr>> \in
                              UNION {{n} \X selectAddr(routes[n]) : n \in matches}}
                 ELSE IF defaultServer = <<>>
                 THEN {HandleFailed(t)}
                 ELSE {proxy([t EXCEPT !.via = "default"], defaultServer)}

(***************************************************************************)
(* Initial states: the process after main has parsed its flags.            *)
(***************************************************************************)
Init ==
    \E rl \in RouteFlagSets, d \in DefaultFlags, at \in AllowTransferFlags :
        LET m == main(rl, d, at)
        IN  /\ started = m.started
            /\ routeLists = m.routeLists
            /\ routes = m.routes
            /\ defaultServer = m.defaultServer
            /\ transferIPs = m.transferIPs
            /\ task = [q \in Slots |-> IdleTask]

(***************************************************************************)
(* Actions.                                                                *)
(***************************************************************************)
\* mutant: queries are served one at a time, a listener takes the next query
\* when no handler is running
Accept_Serial(q, net) ==
    /\ started
    /\ task[q].pc = "idle"
    /\ \A p \in Queries : task[p].pc \in {"idle", "done"}
    /\ \E in \in Inputs(q) :
           /\ in[1].Net = net
           /\ \E r \in route(in[1], in[2]) : task' = [task EXCEPT ![q] = r]
    /\ UNCHANGED config

\* mutant: the backend selected for a routed query is kept as the only
\* backend of its route
Accept_Pins(q, net) ==
    /\ started
    /\ task[q].pc = "idle"
    /\ \E in \in Inputs(q) :
           /\ in[1].Net = net
           /\ \E r \in route(in[1], in[2]) :
                  /\ task' = [task EXCEPT ![q] = r]
                  /\ routes' = IF r.via = "route"
                               THEN [routes EXCEPT ![r.matched] = <<r.addr>>]
                               ELSE routes
    /\ UNCHANGED <<started, routeLists, defaultServer, transferIPs>>

\* the listener of network net (the UDP or the TCP server of main) accepts a
\* query and starts its handling task, which runs route, and proxy inside
\* it, until it returns or blocks on the backend
Accept(q, net) ==
    /\ started
    /\ task[q].pc = "idle"
    /\ \E in \in Inputs(q) :
           /\ in[1].Net = net
           /\ \E r \in route(in[1], in[2]) : task' = [task EXCEPT ![q] = r]
    /\ UNCHANGED config

Route(q) == \E net \in {"udp", "tcp"} : Accept(q, net)

\* one passive-log line for answer r
pdnsLine(t, r) ==
    LET known == r.Rrtype \in {"A", "AAAA", "CNAME"}
    IN  [timestamp |-> <<"now">>,
         dnsClient |-> RemoteAddrString(t.w),
         dnsServer |-> t.server,
         rrClass   |-> <<"IN">>,
         query     |-> IF known THEN r.Name ELSE <<>>,
         queryType |-> IF known THEN <<r.Rrtype>> ELSE <<>>,
         answer    |-> IF known THEN r.Data ELSE <<>>,
         ttl       |-> <<"ttl">>,
         count     |-> <<"1">>]

\* mutant: the log lines are printed by the handler itself, after the write
\* and before it returns
exchangeReturn_LogInline(t, err, resp) ==
    IF err
    THEN HandleFailed([t EXCEPT !.fault = "exchange"])
    ELSE [t EXCEPT !.written = Append(@, resp),
                   !.logged = [i \in 1..Len(resp.Answer) |-> pdnsLine(t, resp.Answer[i])],
                   !.pc = "done"]

\* mutant: a failed exchange makes proxy return without a reply
exchangeReturn_NoReply(t, err, resp) ==
    IF err
    THEN [t EXCEPT !.fault = "exchange", !.pc = "done"]
    ELSE [t EXCEPT !.written = Append(@, resp),
                   !.logq = resp.Answer,
                   !.pc = "done"]

\* mutant: a failed exchange is tried once more
exchangeReturn_Retry(t, err, resp) ==
    IF err
    THEN IF Len(t.upstream) < 2
         THEN [t EXCEPT !.upstream = Append(@, @[1]), !.fault = "exchange"]
         ELSE HandleFailed([t EXCEPT !.fault = "exchange"])
    ELSE [t EXCEPT !.written = Append(@, resp),
                   !.logq = resp.Answer,
                   !.pc = "done"]

\* the rest of proxy once c.Exchange(req, addr) has returned: on an error the
\* failure reply; else resp is written to the client and the log goroutine
\* is started
exchangeReturn(t, err, resp) ==
    IF err
    THEN HandleFailed([t EXCEPT !.fault = "exchange"])
    ELSE [t EXCEPT !.written = Append(@, resp),
                   !.logq = resp.Answer,
                   !.pc = "done"]

Exchange(q) ==
    /\ task[q].pc = "exchange"
    /\ \/ task' = [task EXCEPT ![q] = exchangeReturn(@, TRUE, ServFail)]
       \/ \E resp \in UpstreamResponses :
              task' = [task EXCEPT ![q] = exchangeReturn(@, FALSE, resp)]
    /\ UNCHANGED config

\* the rest of proxy once t.In(req, addr) has returned: on an error the
\* failure reply; else proxy goes on to t.Out with the envelope channel
transferInReturn(t, err) ==
    IF err
    THEN HandleFailed([t EXCEPT !.fault = "transfer-in"])
    ELSE [t EXCEPT !.pc = "xfrOut"]

TransferIn(q) ==
    /\ task[q].pc = "xfrIn"
    /\ \E err \in BOOLEAN : task' = [task EXCEPT ![q] = transferInReturn(@, err)]
    /\ UNCHANGED config

\* the message Transfer.Out writes for one envelope
xfrMsg(x) ==
    [Rcode |-> "NOERROR", Authoritative |-> TRUE, RecursionAvailable |-> FALSE,
     Answer |-> x.RR]

\* mutant: the return after a successful t.Out is missing, proxy runs on into
\* the failure reply
transferOutReturn_NoReturn(t, stream, failAt) ==
    HandleFailed(
        [t EXCEPT !.xfr = IF failAt = 0 THEN stream ELSE SubSeq(stream, 1, failAt),
                  !.written = @ \o [i \in 1..(IF failAt = 0 THEN Len(stream)
                                              ELSE failAt - 1) |-> xfrMsg(stream[i])],
                  !.fault = IF failAt = 0 THEN "" ELSE "transfer-out"])

\* t.Out(w, req, c) and the rest of proxy after it. Out writes one message
\* per envelope of the channel and stops at the first write that fails:
\* failAt = 0 when every write succeeded, else the envelope whose write
\* failed. proxy answers an error with the failure reply and returns
transferOutReturn(t, stream, failAt) ==
    IF failAt = 0
    THEN [t EXCEPT !.xfr = stream,
                   !.written = @ \o [i \in 1..Len(stream) |-> xfrMsg(stream[i])],
                   !.pc = "done"]
    ELSE HandleFailed(
             [t EXCEPT !.xfr = SubSeq(stream, 1, failAt),
                       !.written = @ \o [i \in 1..(failAt - 1) |-> xfrMsg(stream[i])],
                       !.fault = "transfer-out"])

TransferOut(q) ==
    /\ task[q].pc = "xfrOut"
    /\ \E stream \in Streams, failAt \in 0..MaxEnvelopes :
           /\ failAt <= Len(stream)
           /\ task' = [task EXCEPT ![q] = transferOutReturn(@, stream, failAt)]
    /\ UNCHANGED config

\* states of the HTTPS resolver: the record types whose lookup succeeds
ResolverStates == { {}, {"CNAME"}, {"A", "AAAA"}, DoHTypes }

\* mutant: a lookup error is answered like a failed exchange
lookupReturn_FailOnError(t0, up, k) ==
    LET t == [t0 EXCEPT !.resolves = up]
    IN  IF t.req.Question[1].Qtype \in up
        THEN dohFinish(t, dohAnswers(t, k))
        ELSE HandleFailed([t EXCEPT !.fault = "lookup"])

\* the rest of lookupDoH and proxy once the one resolver.LookupX call of the
\* switch has returned: an error (the case breaks with no answers) when the
\* resolver cannot resolve the query's type, else k records
lookupReturn(t0, up, k) ==
    LET t == [t0 EXCEPT !.resolves = up]
    IN  IF t.req.Question[1].Qtype \in up
        THEN dohFinish(t, dohAnswers(t, k))
        ELSE dohFinish([t EXCEPT !.fault = "lookup"], <<>>)

LookupDoH(q) ==
    /\ task[q].pc = "doh"
    /\ \E up \in ResolverStates, k \in 1..MaxAnswers :
           task' = [task EXCEPT ![q] = lookupReturn(@, up, k)]
    /\ UNCHANGED config

\* mutant: the loop over resp.Answer stops after the first record
Log_FirstOnly(q) ==
    /\ task[q].pc = "done"
    /\ task[q].logq # <<>>
    /\ task' = [task EXCEPT ![q] =
                   [@ EXCEPT !.logged = <<pdnsLine(task[q], task[q].logq[1])>>,
                             !.logq = <<>>]]
    /\ UNCHANGED config

\* the log goroutine proxy started runs: one line per answer of resp
Log(q) ==
    /\ task[q].pc = "done"
    /\ task[q].logq # <<>>
    /\ task' = [task EXCEPT ![q] =
                   [@ EXCEPT !.logged = [i \in 1..Len(task[q].logq) |->
                                            pdnsLine(task[q], task[q].logq[i])],
                             !.logq = <<>>]]
    /\ UNCHANGED config

\* the query is over (response sent, log goroutine finished): its slot is free
Close(q) ==
    /\ task[q].pc = "done"
    /\ task[q].logq = <<>>
    /\ task' = [task EXCEPT ![q] = IdleTask]
    /\ UNCHANGED config

Step(q) ==
    \/ Route(q)
    \/ Close(q)
    \/ Exchange(q)
    \/ TransferIn(q)
    \/ TransferOut(q)
    \/ LookupDoH(q)
    \/ Log(q)

\* queries handled one after the other
Next == Step("q1")

Spec == Init /\ [][Next]_vars

\* the same, with what the scheduling gives: a handler blocked on a backend
\* call goes on when the call returns (exchange, transfer and lookup each
\* return a result or an error), and a log goroutine that was started runs
Fairness(q) ==
    /\ WF_vars(Exchange(q))
    /\ WF_vars(TransferIn(q))
    /\ WF_vars(TransferOut(q))
    /\ WF_vars(LookupDoH(q))
    /\ WF_vars(Log(q))

SpecFair == Init /\ [][Next]_vars /\ Fairness("q1")

\* queries handled one after the other, from clients with a remote address
\* of any form
NextAddr == Step("q3")

SpecAddr == Init /\ [][NextAddr]_vars

\* a second query handled at the same time
NextConc == \E q \in Queries : Step(q)

SpecConc == Init /\ [][NextConc]_vars

(***************************************************************************)
(* Vocabulary of the properties, stated without the operators above.       *)
(***************************************************************************)
Handled(t) == t.pc # "idle"

\* a transfer query: some question of type AXFR or IXFR
TransferQuery(req) ==
    \E i \in 1..Len(req.Question) : req.Question[i].Qtype \in {"AXFR", "IXFR"}

\* the client's address is an entry of the allow-list
AllowListed(w) == \E i \in 1..Len(transferIPs) : transferIPs[i] = w.IP

\* at least one question, and passes access control
Permitted(t) ==
    /\ Len(t.req.Question) > 0
    /\ TransferQuery(t.req) => AllowListed(t.w)

QName(t) == ToLower(t.req.Question[1].Name)

\* configured suffixes the query name ends in
Suffixes(t) == {S \in DOMAIN routes : HasSuffix(QName(t), S)}

Backends(S) == {routes[S][i] : i \in 1..Len(routes[S])}

Contacted(t) == t.upstream # <<>>

OnlyFailure(t) == t.pc = "done" /\ t.written = <<ServFail>>

\* C1: a permitted query whose lower-cased name ends in exactly one
\* configured suffix S is handed to the forwarder with a backend of S's
\* list, never with the default endpoint or another route's backend
C1_RouteSelectsOwnBackend ==
    \A q \in Queries :
        LET t == task[q]
        IN  (Handled(t) /\ Permitted(t)) =>
                \A S \in DOMAIN routes :
                    Suffixes(t) = {S} =>
                        /\ t.via = "route"
                        /\ t.addr \in Backends(S)

C1_Witness ==
    \E S \in DOMAIN routes :
        LET t == task["q1"]
        IN  /\ Handled(t) /\ Permitted(t)
            /\ Suffixes(t) = {S}
            /\ Cardinality(DOMAIN routes) > 1
            /\ defaultServer # <<>>
            /\ Len(routes[S]) > 1
            /\ t.addr = routes[S][2]
            /\ Contacted(t)

\* C2: a permitted query whose name ends in no configured suffix goes to
\* exactly the default endpoint when one is configured; without one the
\* client gets the failure reply and no backend is contacted
C2_DefaultOrFailure ==
    \A q \in Queries :
        LET t == task[q]
        IN  (Handled(t) /\ Permitted(t) /\ Suffixes(t) = {}) =>
                IF defaultServer # <<>>
                THEN /\ t.via = "default"
                     /\ t.addr = defaultServer
                     /\ \A i \in 1..Len(t.upstream) : t.upstream[i].addr = defaultServer
                ELSE OnlyFailure(t) /\ ~Contacted(t)

C2_Witness ==
    LET t == task["q1"]
    IN  /\ Handled(t) /\ Permitted(t) /\ Suffixes(t) = {}
        /\ DOMAIN routes # {}
        /\ defaultServer # <<>>
        /\ t.pc = "done"
        /\ Len(t.upstream) = 1
        /\ t.upstream[1].addr = defaultServer
        /\ t.written # <<>> /\ ~IsFailure(t.written[1])

C2_WitnessNoDefault ==
    LET t == task["q1"]
    IN  /\ Handled(t) /\ Permitted(t) /\ Suffixes(t) = {}
        /\ DOMAIN routes # {}
        /\ defaultServer = <<>>
        /\ OnlyFailure(t)

\* C3: when a query name ends in several configured suffixes, the backend
\* is always taken from the entry with the longest of them
C3_LongestSuffixWins ==
    \A q \in Queries :
        LET t == task[q]
        IN  (Handled(t) /\ Permitted(t) /\ Suffixes(t) # {}) =>
                /\ t.matched \in Suffixes(t)
                /\ \A S \in Suffixes(t) : Len(S) <= Len(t.matched)
                /\ t.addr \in Backends(t.matched)

\* C4: a transfer query from a client outside the allow-list ends in the
\* failure reply with no route lookup, no selection and no upstream
\* operation, whatever the transport; a transfer session is only ever
\* opened for an allow-listed client
C4_DeniedTransferNoUpstream ==
    \A q \in Queries :
        LET t == task[q]
        IN  /\ (Handled(t) /\ TransferQuery(t.req) /\ ~AllowListed(t.w)) =>
                   /\ OnlyFailure(t)
                   /\ ~Contacted(t)
                   /\ t.via = "" /\ t.matched = <<>> /\ t.addr = <<>>
            /\ \A i \in 1..Len(t.upstream) :
                   t.upstream[i].op = "transfer" => AllowListed(t.w)

C4_Witness ==
    LET t == task["q1"]
    IN  /\ Handled(t) /\ TransferQuery(t.req) /\ ~AllowListed(t.w)
        /\ t.w.Net = "tcp"
        /\ Suffixes(t) # {}
        /\ defaultServer # <<>>
        /\ Len(transferIPs) > 1
        /\ OnlyFailure(t)

\* C5: allowed(w, req) is true for every query without an AXFR/IXFR
\* question, and for a query with one (in any position) exactly when the
\* host part of the client's address equals an allow-list entry
C5_AllowedIsReference ==
    \A w \in Writers, req \in Requests :
        allowed(w, req) = (~TransferQuery(req) \/ AllowListed(w))

C5_Witness ==
    LET t == task["q1"]
    IN  /\ Handled(t)
        /\ Len(t.req.Question) = 2
        /\ t.req.Question[1].Qtype = "A"
        /\ t.req.Question[2].Qtype = "IXFR"
        /\ t.w.IP = <<":", ":", "1">>
        /\ t.w.Net = "tcp"
        /\ allowed(t.w, t.req)
        /\ Contacted(t) /\ t.upstream[1].op = "transfer"

\* C6: a transfer query from an allow-listed client that came in over UDP
\* ends in the failure reply and no backend is contacted
C6_TransferOverUdpFails ==
    \A q \in Queries :
        LET t == task[q]
        IN  (Handled(t) /\ TransferQuery(t.req) /\ AllowListed(t.w) /\ t.w.Net = "udp") =>
                OnlyFailure(t) /\ ~Contacted(t)

C6_Witness ==
    LET t == task["q1"]
    IN  /\ Handled(t) /\ TransferQuery(t.req) /\ AllowListed(t.w) /\ t.w.Net = "udp"
        /\ t.via = "route"
        /\ OnlyFailure(t)

\* C7: a transfer query from an allow-listed client over TCP whose session
\* with the backend succeeds is answered with exactly the envelopes
\* received, in their order, and with no failure reply
C7_TransferRelaysStream ==
    \A q \in Queries :
        LET t == task[q]
        IN  (/\ t.pc = "done" /\ Contacted(t) /\ t.upstream[1].op = "transfer"
             /\ t.fault = ""
             /\ \A i \in 1..Len(t.xfr) : ~t.xfr[i].Error) =>
                /\ Len(t.written) = Len(t.xfr)
                /\ \A i \in 1..Len(t.xfr) :
                       /\ t.written[i].Answer = t.xfr[i].RR
                       /\ ~IsFailure(t.written[i])

C7_Witness ==
    LET t == task["q1"]
    IN  /\ t.pc = "done" /\ Contacted(t) /\ t.upstream[1].op = "transfer"
        /\ t.fault = ""
        /\ Len(t.xfr) = 2
        /\ \A i \in 1..Len(t.xfr) : ~t.xfr[i].Error
        /\ Len(t.written) = 2
        /\ t.written[1] # t.written[2]

\* C8: a classic exchange always uses the transport the query came in on
C8_SameTransport ==
    \A q \in Queries :
        LET t == task[q]
        IN  \A i \in 1..Len(t.upstream) :
                t.upstream[i].op = "exchange" => t.upstream[i].net = t.w.Net

C8_Witness ==
    LET t == task["q1"]
    IN  /\ t.pc = "done"
        /\ t.w.Net = "tcp"
        /\ Len(t.upstream) = 1
        /\ t.upstream[1].op = "exchange"
        /\ t.upstream[1].net = "tcp"
        /\ t.written # <<>> /\ ~IsFailure(t.written[1])

\* C9: when the classic exchange fails the client gets exactly the failure
\* reply, and there was one exchange, with the selected backend, and no other
\* upstream operation
C9_ExchangeFailureNoRetry ==
    \A q \in Queries :
        LET t == task[q]
        IN  t.fault = "exchange" =>
                /\ OnlyFailure(t)
                /\ Len(t.upstream) = 1
                /\ t.upstream[1].op = "exchange"
                /\ t.upstream[1].addr = t.addr
                /\ t.logq = <<>> /\ t.logged = <<>>

C9_Witness ==
    LET t == task["q1"]
    IN  /\ t.fault = "exchange"
        /\ t.via = "route"
        /\ Len(routes[t.matched]) > 1
        /\ defaultServer # <<>>
        /\ OnlyFailure(t)

\* the reply a finished DoH-mode query got
DoHDone(t) ==
    /\ t.pc = "done"
    /\ Contacted(t) /\ t.upstream[1].op = "doh"

\* the address lookup fails and the canonical-name lookup succeeds
AddressFailsCnameResolves(t) == "A" \notin t.resolves /\ "CNAME" \in t.resolves

\* C10 as stated: a DoH-mode lookup where the address-record lookup fails
\* and the canonical-name lookup succeeds returns a reply with only the
\* canonical-name record, not a failure
C10_CnameRecordReturned ==
    \A q \in Queries :
        LET t == task[q]
        IN  (/\ DoHDone(t) /\ AddressFailsCnameResolves(t)
             /\ t.req.Question[1].Qtype \in {"A", "CNAME"}) =>
                \A m \in 1..Len(t.written) :
                    /\ ~IsFailure(t.written[m])
                    /\ t.written[m].Answer # <<>>
                    /\ \A i \in 1..Len(t.written[m].Answer) :
                           t.written[m].Answer[i].Rrtype = "CNAME"

\* C10 amended: lookupDoH makes the one lookup of the query's type. With the
\* address lookup failing and the canonical-name lookup succeeding, the
\* reply is never a failure; for an address query it carries no record, for
\* a canonical-name query only canonical-name records
C10_ReplyOfQueryTypeOnly ==
    \A q \in Queries :
        LET t == task[q]
        IN  (/\ DoHDone(t) /\ AddressFailsCnameResolves(t)
             /\ t.req.Question[1].Qtype \in {"A", "CNAME"}) =>
                /\ t.written # <<>>
                /\ \A m \in 1..Len(t.written) :
                       /\ ~IsFailure(t.written[m])
                       /\ t.req.Question[1].Qtype = "A" => t.written[m].Answer = <<>>
                       /\ t.req.Question[1].Qtype = "CNAME" =>
                              /\ t.written[m].Answer # <<>>
                              /\ \A i \in 1..Len(t.written[m].Answer) :
                                     t.written[m].Answer[i].Rrtype = "CNAME"
                /\ Len(t.upstream) = 1

C10_Witness ==
    LET t == task["q1"]
    IN  /\ DoHDone(t) /\ AddressFailsCnameResolves(t)
        /\ t.req.Question[1].Qtype = "A"
        /\ t.fault = "lookup"
        /\ t.written # <<>>
        /\ t.written[1].Answer = <<>>

\* C11: a query with zero questions gets the failure reply at once: no route
\* is looked up, no backend is selected or contacted, and no log line is
\* queued or printed for it
C11_NoQuestionFailsAtOnce ==
    \A q \in Queries :
        LET t == task[q]
        IN  (Handled(t) /\ Len(t.req.Question) = 0) =>
                /\ OnlyFailure(t)
                /\ ~Contacted(t)
                /\ t.via = "" /\ t.matched = <<>> /\ t.addr = <<>>
                /\ t.logq = <<>> /\ t.logged = <<>>

C11_Witness ==
    LET t == task["q1"]
    IN  /\ Handled(t) /\ Len(t.req.Question) = 0
        /\ defaultServer # <<>>
        /\ DOMAIN routes # {}
        /\ t.w.Net = "tcp"
        /\ OnlyFailure(t)

\* C12: selection over a route's backend list: a list of one backend yields
\* that backend; a longer list yields members of the list only and every
\* member can be the result; the backend of each routed query in flight,
\* next to any other query, is a member of its route's list
C12_SelectionCoversList ==
    /\ \A S \in DOMAIN routes :
           /\ Len(routes[S]) = 1 => selectAddr(routes[S]) = {routes[S][1]}
           /\ Len(routes[S]) > 1 =>
                  /\ selectAddr(routes[S]) \subseteq Backends(S)
                  /\ \A i \in 1..Len(routes[S]) : routes[S][i] \in selectAddr(routes[S])
    /\ \A q \in Queries :
           LET t == task[q]
           IN  t.via = "route" =>
                   /\ t.addr \in Backends(t.matched)
                   /\ Len(routes[t.matched]) = 1 => t.addr = routes[t.matched][1]

\* two queries in flight at once for the same route, each with another
\* backend of its list
C12_Witness ==
    LET t == task["q1"]
        u == task["q2"]
    IN  /\ t.pc = "exchange" /\ u.pc = "exchange"
        /\ t.via = "route" /\ u.via = "route"
        /\ t.matched = u.matched
        /\ Len(routes[t.matched]) = 2
        /\ t.addr = routes[t.matched][1]
        /\ u.addr = routes[t.matched][2]

\* an endpoint of the form host:port or [host]:port, host and port not empty
WellFormedEndpoint(e) ==
    LET plain(x) == \A j \in 1..Len(x) : x[j] \notin {":", "[", "]"}
    IN  \/ \E i \in 2..(Len(e) - 1) :
               /\ e[i] = ":"
               /\ plain(SubSeq(e, 1, i - 1))
               /\ plain(SubSeq(e, i + 1, Len(e)))
        \/ \E k \in 3..(Len(e) - 2) :
               /\ e[1] = "[" /\ e[k] = "]" /\ e[k + 1] = ":"
               /\ \A j \in 2..(k - 1) : e[j] \notin {"[", "]"}
               /\ plain(SubSeq(e, k + 2, Len(e)))

\* a -route value that is not domain=endpoint[,endpoint...]
MalformedEntry(entry) ==
    LET eqs == {i \in 1..Len(entry) : entry[i] = "="}
    IN  \/ eqs = {}
        \/ LET eq == CHOOSE i \in eqs : \A j \in eqs : i <= j
               list == SubSeq(entry, eq + 1, Len(entry))
               cuts == {0, Len(list) + 1} \cup {j \in 1..Len(list) : list[j] = ","}
           IN  \/ eq = 1
               \/ list = <<>>
               \/ \E a, b \in cuts :
                      /\ a < b
                      /\ \A c \in cuts : ~(a < c /\ c < b)
                      /\ ~WellFormedEndpoint(SubSeq(list, a + 1, b - 1))

\* C13: a command line with a malformed -route value (no "=", empty domain,
\* empty endpoint list, an invalid endpoint at any place of the list) never
\* starts the listeners, and so never serves a query; a started process has
\* only routes with a non-empty list of well-formed endpoints
C13_MalformedRouteIsFatal ==
    /\ (\E i \in 1..Len(routeLists) : MalformedEntry(routeLists[i])) => ~started
    /\ ~started => \A q \in Queries : task[q] = IdleTask
    /\ started =>
           \A S \in DOMAIN routes :
               /\ routes[S] # <<>>
               /\ \A i \in 1..Len(routes[S]) : WellFormedEndpoint(routes[S][i])

\* the second -route value is malformed at the second endpoint of its list
C13_Witness ==
    /\ Len(routeLists) = 2
    /\ ~MalformedEntry(routeLists[1])
    /\ MalformedEntry(routeLists[2])
    /\ WellFormedEndpoint(SubSeq(routeLists[2], 5, 7))
    /\ ~started
    /\ routes = EmptyRoutes

\* a finished query that was served by a transfer session
TransferDone(t) ==
    /\ t.pc = "done"
    /\ Contacted(t) /\ t.upstream[1].op = "transfer"

\* C14: a transfer over TCP in which a leg failed (connecting to the backend,
\* receiving from it, also when the error comes in the middle of the stream,
\* or writing out to the client) ends with the failure reply to the client,
\* and the transfer was attempted once, with one backend
C14_TransferFailureFails ==
    \A q \in Queries :
        LET t == task[q]
        IN  (/\ TransferDone(t)
             /\ \/ t.fault \in {"transfer-in", "transfer-out"}
                \/ \E i \in 1..Len(t.xfr) : t.xfr[i].Error) =>
                /\ t.written # <<>>
                /\ IsFailure(t.written[Len(t.written)])
                /\ Len(t.upstream) = 1

\* a finished non-transfer query whose endpoint is of the https:// form
DoHModeDone(t) ==
    /\ t.pc = "done"
    /\ Permitted(t) /\ ~TransferQuery(t.req)
    /\ t.via # ""
    /\ Len(t.addr) >= 4 /\ SubSeq(t.addr, 1, 4) = <<"https", ":", "/", "/">>

\* C15: every non-transfer query sent to an https:// endpoint is answered,
\* never with the failure reply: each reply written is authoritative, with
\* recursion-available cleared, and carries the records the resolver
\* returned for the query's type, none when the lookup failed or the type is
\* not one lookupDoH resolves
C15_DoHNeverFails ==
    \A q \in Queries :
        LET t == task[q]
            qtype == t.req.Question[1].Qtype
            resolved == qtype \in {"A", "AAAA", "CNAME", "SOA"} /\ qtype \in t.resolves
        IN  DoHModeDone(t) =>
                /\ t.written # <<>>
                /\ \A m \in 1..Len(t.written) :
                       LET a == t.written[m].Answer
                       IN  /\ ~IsFailure(t.written[m])
                           /\ t.written[m].Authoritative
                           /\ ~t.written[m].RecursionAvailable
                           /\ (a # <<>>) = resolved
                           /\ \A i \in 1..Len(a) :
                                  /\ a[i].Rrtype = qtype
                                  /\ a[i].Name = QName(t)
                                  /\ a[i].Data \in {ResolverData(qtype, i),
                                                    ResolverData(qtype, i) \o <<".">>}

\* the three outcomes: a lookup error, a type the lookup does not cover, and
\* a lookup with two records are each reachable; the witness is the first
C15_Witness ==
    LET t == task["q1"]
    IN  /\ DoHModeDone(t)
        /\ t.req.Question[1].Qtype = "SOA"
        /\ t.resolves = {}
        /\ t.fault = "lookup"
        /\ Len(t.upstream) = 1
        /\ t.written # <<>>
        /\ \A m \in 1..Len(t.written) :
               ~IsFailure(t.written[m]) /\ t.written[m].Answer = <<>>

\* the upstream operation that belongs to a branch of proxy
ModeOp(mode) ==
    CASE mode = "transfer" -> "transfer"
      [] mode = "doh" -> "doh"
      [] mode = "classic" -> "exchange"

\* C16: every query handed to the forwarder is served in exactly one mode:
\* the transfer mode exactly for transfer queries, else the DoH mode exactly
\* when the endpoint is of https:// form, else the classic exchange; each
\* upstream operation is that of the mode, and there is at most one
C16_OneModeOnly ==
    \A q \in Queries :
        LET t == task[q]
            https == Len(t.addr) >= 4 /\ SubSeq(t.addr, 1, 4) = <<"https", ":", "/", "/">>
        IN  /\ t.via = "" => t.mode = <<>> /\ t.upstream = <<>>
            /\ t.via # "" =>
                   /\ Len(t.mode) = 1
                   /\ (t.mode[1] = "transfer") = TransferQuery(t.req)
                   /\ (t.mode[1] = "doh") = (~TransferQuery(t.req) /\ https)
                   /\ (t.mode[1] = "classic") = (~TransferQuery(t.req) /\ ~https)
                   /\ Len(t.upstream) <= 1
                   /\ \A i \in 1..Len(t.upstream) : t.upstream[i].op = ModeOp(t.mode[1])
                   /\ (t.pc = "done" /\ t.upstream = <<>>) =>
                          \/ t.mode[1] = "transfer" /\ t.w.Net = "udp"
                          \/ t.mode[1] = "doh" /\
                                 t.req.Question[1].Qtype \notin {"A", "AAAA", "CNAME", "SOA"}

\* a transfer query whose route has an https:// endpoint, served by a
\* transfer session
C16_Witness ==
    LET t == task["q1"]
    IN  /\ t.pc = "done"
        /\ TransferQuery(t.req)
        /\ t.req.Question[1].Qtype = "A"
        /\ t.addr = H1
        /\ t.mode = <<"transfer">>
        /\ Len(t.upstream) = 1 /\ t.upstream[1].op = "transfer"

\* C17: log lines of a query are printed only once its handler has written
\* the response and returned; the handler returns with no line printed yet;
\* printing the lines changes neither the response written nor anything else
\* of the query
C17_LogAfterResponse ==
    /\ [](\A q \in Queries :
             task[q].logged # <<>> => task[q].pc = "done" /\ task[q].written # <<>>)
    /\ [][\A q \in Queries :
             /\ (task[q].pc # "done" /\ task'[q].pc = "done") =>
                    task'[q].logged = <<>>
             /\ (task'[q].logged # task[q].logged /\ task'[q].logged # <<>>) =>
                    /\ task[q].pc = "done" /\ task'[q].pc = "done"
                    /\ task[q].written # <<>>
                    /\ task'[q].written = task[q].written
                    /\ task'[q].upstream = task[q].upstream]_vars

\* the handler has returned, the response with two answers is written and
\* the log goroutine has not run yet
C17_Witness ==
    LET t == task["q1"]
    IN  /\ t.pc = "done"
        /\ Len(t.written) = 1 /\ Len(t.written[1].Answer) = 2
        /\ Len(t.logq) = 2
        /\ t.logged = <<>>

\* the answer records of the response a classic or DoH mode query got, none
\* for a query that ended in the failure reply or in a transfer
AnswersToLog(t) ==
    IF /\ t.mode \in {<<"classic">>, <<"doh">>}
       /\ t.written # <<>>
       /\ ~IsFailure(t.written[Len(t.written)])
    THEN t.written[Len(t.written)].Answer
    ELSE <<>>

\* C18: a query answered in classic or DoH mode with k answer records gets
\* exactly k log lines, one for each record in order, printed once and
\* eventually; a query ending in the failure reply gets none
C18_OneLinePerAnswer ==
    /\ [](\A q \in Queries :
             LET t == task[q]
                 a == AnswersToLog(t)
             IN  /\ t.pc # "done" => t.logged = <<>>
                 /\ t.pc = "done" =>
                        /\ Len(t.logged) \in {0, Len(a)}
                        /\ Len(t.logged) + Len(t.logq) = Len(a)
                        /\ \A i \in 1..Len(t.logged) :
                               /\ t.logged[i].dnsClient = t.w.IP \o <<":">> \o t.w.Port
                                  \/ t.logged[i].dnsClient =
                                        <<"[">> \o t.w.IP \o <<"]", ":">> \o t.w.Port
                               /\ a[i].Rrtype \in {"A", "AAAA", "CNAME"} =>
                                      /\ t.logged[i].answer = a[i].Data
                                      /\ t.logged[i].query = a[i].Name
                                      /\ t.logged[i].queryType = <<a[i].Rrtype>>)
    /\ [][\A q \in Queries :
             task[q].logged # <<>> =>
                 task'[q].logged = task[q].logged \/ task'[q].pc = "idle"]_vars
    /\ \A q \in Queries :
           (task[q].pc = "done" /\ task[q].logq # <<>>)
               ~> (/\ task[q].pc = "done"
                   /\ task[q].logq = <<>>
                   /\ AnswersToLog(task[q]) # <<>>
                   /\ Len(task[q].logged) = Len(AnswersToLog(task[q])))

\* a DoH mode query answered with two records and two lines printed
C18_Witness ==
    LET t == task["q1"]
    IN  /\ t.pc = "done"
        /\ t.mode = <<"doh">>
        /\ Len(AnswersToLog(t)) = 2
        /\ Len(t.logged) = 2
        /\ t.logged[1] # t.logged[2]
        /\ t.logq = <<>>

\* a query that ended in the failure reply of a failed exchange, no line
C18_WitnessFailure ==
    LET t == task["q1"]
    IN  /\ t.pc = "done"
        /\ t.fault = "exchange"
        /\ IsFailure(t.written[Len(t.written)])
        /\ t.logq = <<>> /\ t.logged = <<>>

\* the handler of the query is running or blocked on a backend call
InFlight(t) == t.pc \notin {"idle", "done"}

\* C19: with every backend call returning a result or an error, each
\* dispatched query ends with a response written to the client; a finished
\* query has a response, and a query in flight is never dropped or replaced
C19_EveryQueryAnswered ==
    /\ [](\A q \in Queries : task[q].pc = "done" => task[q].written # <<>>)
    /\ [][\A q \in Queries :
             /\ InFlight(task[q]) =>
                    /\ task'[q].pc # "idle"
                    /\ task'[q].w = task[q].w
                    /\ task'[q].req = task[q].req
                    /\ Len(task'[q].written) >= Len(task[q].written)
             /\ (task[q].pc = "idle" /\ task'[q].pc # "idle") =>
                    InFlight(task'[q]) \/ task'[q].written # <<>>]_vars
    /\ \A q \in Queries :
           InFlight(task[q]) ~> (task[q].pc = "done" /\ task[q].written # <<>>)

\* a transfer whose second write to the client failed: the first message
\* and then the failure reply
C19_Witness ==
    LET t == task["q1"]
    IN  /\ t.pc = "done"
        /\ t.fault = "transfer-out"
        /\ Len(t.upstream) = 1
        /\ Len(t.written) = 2
        /\ ~IsFailure(t.written[1])
        /\ IsFailure(t.written[2])

\* the step a handler blocked on a backend call takes when the call returns
Resume(q) ==
    CASE task[q].pc = "exchange" -> ENABLED Exchange(q)
      [] task[q].pc = "xfrIn" -> ENABLED TransferIn(q)
      [] task[q].pc = "xfrOut" -> ENABLED TransferOut(q)
      [] task[q].pc = "doh" -> ENABLED LookupDoH(q)
      [] OTHER -> TRUE

\* C20: while the handler of one query is blocked on its exchange, lookup or
\* transfer, each of the two listeners can accept another query, the handler
\* of another query can go on when its own backend call returns, and the
\* steps of one query leave the other as it is
C20_QueriesIndependent ==
    /\ [](\A q, p \in Queries :
             (q # p /\ InFlight(task[q])) =>
                 /\ task[p].pc = "idle" =>
                        ENABLED Accept(p, "udp") /\ ENABLED Accept(p, "tcp")
                 /\ Resume(p))
    /\ [][\A q, p \in Queries :
             (q # p /\ task'[p] # task[p]) => task'[q] = task[q]]_vars

\* the first query is blocked on its transfer stream, the second, accepted
\* on the other listener, has its answer
C20_Witness ==
    LET t == task["q1"]
        u == task["q2"]
    IN  /\ t.pc = "xfrOut" /\ t.w.Net = "tcp"
        /\ u.pc = "done" /\ u.w.Net = "udp"
        /\ Len(u.written) = 1 /\ ~IsFailure(u.written[1])
        /\ u.logged # <<>>

\* C21: once the listeners are started no step of any query, alone or next
\* to another query, changes the route table, a backend list, the
\* allow-list or the default endpoint: the route table stays the one main
\* built from the -route values
C21_ConfigNeverChanges ==
    /\ [](started => routes = parseRoutes(routeLists, 1, EmptyRoutes).routes)
    /\ [][/\ routes' = routes
           /\ transferIPs' = transferIPs
           /\ defaultServer' = defaultServer
           /\ routeLists' = routeLists
           /\ started' = started]_vars

\* a denied transfer in one slot and a routed query answered and logged in
\* the other, with routes, an allow-list and a default endpoint configured
C21_Witness ==
    LET t == task["q1"]
        u == task["q2"]
    IN  /\ Cardinality(DOMAIN routes) = 2
        /\ Len(transferIPs) = 2
        /\ defaultServer # <<>>
        /\ t.pc = "done" /\ TransferQuery(t.req) /\ ~AllowListed(t.w)
        /\ OnlyFailure(t)
        /\ u.pc = "done" /\ u.via = "route"
        /\ u.logged # <<>>

\* the domains of the -route values
ConfiguredDomains ==
    LET eqs(e) == {j \in 1..Len(e) : e[j] = "="}
        domain(e) ==
            IF eqs(e) = {} THEN e
            ELSE SubSeq(e, 1, (CHOOSE j \in eqs(e) : \A k \in eqs(e) : j <= k) - 1)
    IN  {domain(routeLists[i]) : i \in 1..Len(routeLists)}

UpperCase == {"A", "B", "C", "X"}

\* lower-case(D) with a trailing "." appended if absent
Canonical(D) ==
    LET d == ToLower(D)
    IN  IF d # <<>> /\ d[Len(d)] = "." THEN d ELSE d \o <<".">>

\* what route decides and does for a query, the query itself left out
Outcomes(w, req) ==
    {<<r.pc, r.via, r.matched, r.addr, r.written>> : r \in route(w, req)}

\* C22: every key of the route table is lower-case and ends in "."; the
\* keys are the configured domains, lower-cased and with a trailing "."; a
\* query name matches a configured domain exactly when its lower-case form
\* ends in that form of the domain, and a query is routed like the same
\* query with its name in lower case
C22_MatchIgnoresCaseAndDot ==
    started =>
        /\ \A S \in DOMAIN routes :
               /\ \A i \in 1..Len(S) : S[i] \notin UpperCase
               /\ S[Len(S)] = "."
        /\ DOMAIN routes = {Canonical(D) : D \in ConfiguredDomains}
        /\ \A q \in Queries :
               LET t == task[q]
                   N == t.req.Question[1].Name
                   lowered == [t.req EXCEPT !.Question[1].Name = ToLower(N)]
               IN  (Handled(t) /\ Len(t.req.Question) > 0) =>
                       /\ \A D \in ConfiguredDomains :
                              (routeKey(D) \in routeMatches(ToLower(N)))
                                  = HasSuffix(ToLower(N), Canonical(D))
                       /\ \A D \in ConfiguredDomains :
                              (routeKey(D) \in routeMatches(ToLower(N)))
                                  = (routeKey(Canonical(D)) \in
                                         routeMatches(ToLower(ToLower(N))))
                       /\ Outcomes(t.w, t.req) = Outcomes(t.w, lowered)

\* a mixed-case query routed by a domain configured in upper case, without
\* its trailing "."
C22_Witness ==
    LET t == task["q1"]
    IN  /\ <<".", "A", ".", "B">> \in ConfiguredDomains
        /\ Handled(t) /\ Len(t.req.Question) > 0
        /\ t.req.Question[1].Name = <<"X", ".", "A", ".", "b", ".">>
        /\ t.via = "route"
        /\ t.matched = <<".", "a", ".", "b", ".">>
        /\ Contacted(t)

\* C23: every non-transfer query gets exactly one message written to the
\* client, on every path
C23_ExactlyOneResponse ==
    \A q \in Queries :
        LET t == task[q]
        IN  (t.pc = "done" /\ ~TransferQuery(t.req)) => Len(t.written) = 1

\* no -allow-transfer value was given
NoAllowList == transferIPs = <<<<>>>>

C25_MatchAtLabelBoundary ==
    \A q \in Queries :
        LET t == task[q]
            N == QName(t)
            S == t.matched
            start == Len(N) - Len(S) + 1
        IN  t.via = "route" =>
                /\ start >= 1
                /\ SubSeq(N, start, Len(N)) = S
                /\ \/ start = 1
                   \/ S[1] = "."
                   \/ N[start - 1] = "."

====
